---- MODULE Spec2Model ----
(***************************************************************************)
(* stactools-hwsd: STAC metadata for the Harmonized World Soil Database.   *)
(*                                                                         *)
(* The model follows src/src/stactools/hwsd: the constant tables of        *)
(* constants.py, the record builders of stac.py (asset_name_from_href,     *)
(* get_geometry, create_collection, create_item), the conversions of       *)
(* cog.py (create_cog, create_cogs) and the command line entry points of   *)
(* commands.py, which import cog.py.                                       *)
(*                                                                         *)
(* File names and hrefs are sequences of one-character strings, so that    *)
(* os.path.basename and str.replace work on them as they do in Python.     *)
(* STAC objects are records; a Python dict is a function on its keys, so   *)
(* that the presence of a key is the membership of its domain.             *)
(***************************************************************************)
EXTENDS Integers, Sequences, FiniteSets, TLC

(***************************************************************************)
(* constants.py                                                            *)
(***************************************************************************)

\* constants.py:9
ID ==
    "hwsd"

\* constants.py:14
TITLE ==
    "Harmonized World Soil Database"

\* constants.py:15
DESCRIPTION ==
    "This data set describes select global soil parameters from the Harmonized World Soil Database (HWSD) v1.2, including additional calculated parameters such as area weighted soil organic carbon (kg C per m2), as high resolution NetCDF files. These data were regridded and upscaled from the Harmonized World Soil Database v1.2."

\* constants.py:22
HOMEPAGE_REGRIDDED_URL ==
    "https://daac.ornl.gov/SOILS/guides/HWSD.html"

\* constants.py:23
HOMEPAGE_2_URL ==
    "http://webarchive.iiasa.ac.at/Research/LUC/External-World-soil-database/HTML/SoilQualityData.html?sb=11"

\* constants.py:24
HOMEPAGE_1_URL ==
    "https://www.fao.org/soils-portal/data-hub/soil-maps-and-databases/harmonized-world-soil-database-v12"

\* constants.py:25
DOCUMENTATION_URL ==
    "http://daac.ornl.gov/daacdata/global_soil/HWSD/comp/HWSD1.2_documentation.pdf"

\* constants.py:27
LICENSE ==
    "proprietary"

\* constants.py:83
CITATION ==
    "Wieder, W.R., J. Boehnert, G.B. Bonan, and M. Langseth. 2014. Regridded Harmonized World Soil Database v1.2. Data set. Available on-line [http://daac.ornl.gov] from Oak Ridge National Laboratory Distributed Active Archive Center, Oak Ridge, Tennessee, USA. http://dx.doi.org/10.3334/ORNLDAAC/1247 ."

\* constants.py:84
DOI ==
    "10.3334/ORNLDAAC/1247"

\* constants.py:86
THUMBNAIL_URL ==
    "https://daac.ornl.gov/SOILS/guides/HWSD_Fig1.png"

\* constants.py:90-118  variable name -> raster data type (DataType enum value)
ASSET_DATA_TYPES ==
       "AWC_CLASS" :> "int16"
    @@ "ISSOIL" :> "int16"
    @@ "MU_GLOBAL" :> "int32"
    @@ "REF_DEPTH" :> "int16"
    @@ "ROOTS" :> "int16"
    @@ "T_BULK_DEN" :> "float64"
    @@ "S_BULK_DEN" :> "float64"
    @@ "T_REF_BULK" :> "float64"
    @@ "S_REF_BULK" :> "float64"
    @@ "T_CEC_CLAY" :> "float64"
    @@ "S_CEC_CLAY" :> "float64"
    @@ "T_CLAY" :> "float64"
    @@ "S_CLAY" :> "float64"
    @@ "T_GRAVEL" :> "float64"
    @@ "S_GRAVEL" :> "float64"
    @@ "T_SAND" :> "float64"
    @@ "S_SAND" :> "float64"
    @@ "T_SILT" :> "float64"
    @@ "S_SILT" :> "float64"
    @@ "T_PH_H2O" :> "float64"
    @@ "S_PH_H2O" :> "float64"
    @@ "T_C" :> "float64"
    @@ "S_C" :> "float64"
    @@ "T_OC" :> "float64"
    @@ "S_OC" :> "float64"
    @@ "AWT_S_SOC" :> "float64"
    @@ "AWT_T_SOC" :> "float64"

\* constants.py:120-150  variable name -> description
ASSET_DESCRIPTIONS ==
       "AWC_CLASS" :> "Available water storage capacity"
    @@ "ISSOIL" :> "Soil or non-soil units"
    @@ "MU_GLOBAL" :> "HWSD global mapping unit identifier"
    @@ "REF_DEPTH" :> "Reference soil depth"
    @@ "ROOTS" :> "Depth of obstacles to roots"
    @@ "T_BULK_DEN" :> "Topsoil bulk density"
    @@ "S_BULK_DEN" :> "Subsoil bulk density"
    @@ "T_REF_BULK" :> "topsoil bulk density"
    @@ "S_REF_BULK" :> "Subsoil reference bulk density"
    @@ "T_CEC_CLAY" :> "Cation exchange capacity of the clay fraction in the topsoil"
    @@ "S_CEC_CLAY" :> "Cation exchange capacity of the clay fraction in the subsoil"
    @@ "T_CLAY" :> "Topsoil clay fraction"
    @@ "S_CLAY" :> "Subsoil clay fraction"
    @@ "T_GRAVEL" :> "Topsoil gravel content"
    @@ "S_GRAVEL" :> "Subsoil gravel content"
    @@ "T_SAND" :> "Topsoil sand fraction"
    @@ "S_SAND" :> "Subsoil sand fraction"
    @@ "T_SILT" :> "Topsoil silt fraction"
    @@ "S_SILT" :> "Subsoil silt fraction"
    @@ "T_PH_H2O" :> "Topsoil pH (in H2O)"
    @@ "S_PH_H2O" :> "Subsoil pH (in water)"
    @@ "T_C" :> "Topsoil carbon content"
    @@ "S_C" :> "Dominant soil type subsoil carbon content"
    @@ "T_OC" :> "Topsoil organic carbon"
    @@ "S_OC" :> "Subsoil organic carbon"
    @@ "AWT_S_SOC" :> "Area weighted subsoil carbon content"
    @@ "AWT_T_SOC" :> "Area weighted topsoil carbon content"

\* constants.py:152-180  variable name -> unit
ASSET_UNITS ==
       "AWC_CLASS" :> "Coded values 1 through 7"
    @@ "ISSOIL" :> "0 or 1"
    @@ "MU_GLOBAL" :> "numerical ID"
    @@ "REF_DEPTH" :> "cm"
    @@ "ROOTS" :> "Coded values 0 through 6"
    @@ "T_BULK_DEN" :> "kg dm-3"
    @@ "S_BULK_DEN" :> "kg dm-3"
    @@ "T_REF_BULK" :> "kg dm-3"
    @@ "S_REF_BULK" :> "kg dm-3"
    @@ "T_CEC_CLAY" :> "cmol per kg"
    @@ "S_CEC_CLAY" :> "cmol per kg"
    @@ "T_CLAY" :> "% weight"
    @@ "S_CLAY" :> "% weight"
    @@ "T_GRAVEL" :> "% volume"
    @@ "S_GRAVEL" :> "% volume"
    @@ "T_SAND" :> "% weight"
    @@ "S_SAND" :> "% weight"
    @@ "T_SILT" :> "% weight"
    @@ "S_SILT" :> "% weight"
    @@ "T_PH_H2O" :> "-log(H+)"
    @@ "S_PH_H2O" :> "-log(H+)"
    @@ "T_C" :> "kg C m-2"
    @@ "S_C" :> "kg C m-2"
    @@ "T_OC" :> "% weight"
    @@ "S_OC" :> "% weight"
    @@ "AWT_S_SOC" :> "kg C m-2"
    @@ "AWT_T_SOC" :> "kg C m-2"

\* constants.py:182-199  variable name -> notes (only some variables)
ASSET_NOTES ==
       "AWC_CLASS" :> "1 = 150 mm water per m of the soil unit, 2 = 125 mm, 3 = 100 mm, 4 = 75 mm, 5 = 50 mm, 6 = 15 mm, 7 = 0 mm."
    @@ "ISSOIL" :> "ISSOIL indicates whether the soil mapping unit is a soil (1) or non-soil (0)"
    @@ "MU_GLOBAL" :> "MU_GLOBAL provides a link from the grid cell to the other attributes.The HWSD v1.2 attribute lookup table is available from the HWSD project (FAO 2012)"
    @@ "REF_DEPTH" :> "Reference soil depth of all soil units are set at 100 cm, except for Rendzinas and Rankers of FAO-74 and Leptosols of FAO-90, where the reference soil depth is set at 30 cm, and for Lithosols of FAO-74 and Lithic Leptosols of FAO-90, where it is set at 10 cm."
    @@ "ROOTS" :> "0 = no information, 1 = no obstacles to roots between 0 and 80 cm depth, 2 = obstacles to roots between 60 and 80 cm depth, 3 = obstacles between 40 and 60 cm, 4 = 20 and 40 cm, 5 = 0 and 80 cm, 6 = 0 and 20 cm."
    @@ "T_REF_BULK" :> "Reference bulk density values are calculated from equations developed by Saxton et al. (1986) that relate to the texture of the soil only. These estimates, although generally reliable, overestimate the bulk density in soils that have a high porosity (Andosols) or that are high in organic matter content (Histosols). The calculation procedures for reference bulk density can be found in Saxton et al (1986)"
    @@ "T_C" :> "Topsoil and subsoil carbon content (T_C and S_C) are based on the carbon content of the dominant soil type in each regridded cell rather than a weighted average."
    @@ "AWT_S_SOC" :> "AWT_S_SOC = (sum(SEQ(SHARE * S_OC)) * 7 * S_BULK_DENSITY)"
    @@ "AWT_T_SOC" :> "AWT_T_SOC = (sum(SEQ(SHARE * T_OC)) * 3 * T_BULK_DENSITY)"

\* constants.py:201-224  variable name -> ordered (code, label) pairs (dict insertion order)
ASSET_LABELS ==
       "AWC_CLASS" :> << <<1, "150 mm per m of the soil unit">>,
              <<2, "125 mm per m">>,
              <<3, "100 mm per m">>,
              <<4, "75 mm per m">>,
              <<5, "50 mm per m">>,
              <<6, "15 mm per m">>,
              <<7, "0 mm per m">> >>
    @@ "ISSOIL" :> << <<0, "not soil">>,
              <<1, "soil">> >>
    @@ "ROOTS" :> << <<0, "no information">>,
              <<1, "no obstacles to roots between 0 and 80 cm depth">>,
              <<2, "obstacles to roots between 60 and 80 cm depth">>,
              <<3, "obstacle to roots between 40 and 60 cm depth">>,
              <<4, "obstacle to roots between 20 and 40 cm depth">>,
              <<5, "obstacle to roots between 0 and 80 cm depth">>,
              <<6, "obstacle to roots between 0 and 20 cm depth">> >>

\* The keys of ASSET_DESCRIPTIONS spelled as character sequences, in table order
\* (file names are handled character by character).
RegisteredStems ==
    << <<"A","W","C","_","C","L","A","S","S">>,
       <<"I","S","S","O","I","L">>,
       <<"M","U","_","G","L","O","B","A","L">>,
       <<"R","E","F","_","D","E","P","T","H">>,
       <<"R","O","O","T","S">>,
       <<"T","_","B","U","L","K","_","D","E","N">>,
       <<"S","_","B","U","L","K","_","D","E","N">>,
       <<"T","_","R","E","F","_","B","U","L","K">>,
       <<"S","_","R","E","F","_","B","U","L","K">>,
       <<"T","_","C","E","C","_","C","L","A","Y">>,
       <<"S","_","C","E","C","_","C","L","A","Y">>,
       <<"T","_","C","L","A","Y">>,
       <<"S","_","C","L","A","Y">>,
       <<"T","_","G","R","A","V","E","L">>,
       <<"S","_","G","R","A","V","E","L">>,
       <<"T","_","S","A","N","D">>,
       <<"S","_","S","A","N","D">>,
       <<"T","_","S","I","L","T">>,
       <<"S","_","S","I","L","T">>,
       <<"T","_","P","H","_","H","2","O">>,
       <<"S","_","P","H","_","H","2","O">>,
       <<"T","_","C">>,
       <<"S","_","C">>,
       <<"T","_","O","C">>,
       <<"S","_","O","C">>,
       <<"A","W","T","_","S","_","S","O","C">>,
       <<"A","W","T","_","T","_","S","O","C">> >>

\* constants.py:10
EPSG == 4326

\* constants.py:11  CRS.from_epsg(EPSG): the CRS object, known by its code.
HWSD_CRS == [authority |-> "EPSG", code |-> EPSG]

\* constants.py:12  [-180., 90., 180., -90.]
SPATIAL_EXTENT == << -180, 90, 180, -90 >>

\* constants.py:13
TEMPORAL_EXTENT == << "2000-01-01T00:00:00Z", "2000-12-31T23:59:59Z" >>

\* constants.py:16
SHAPE == << 7200, 3600 >>

\* constants.py:17-20  the affine transform, its floats kept as literals
TRANSFORM ==
    << "0.049999999999999996", "0.0", "-180.0",
       "0.0", "-0.049999999999999996", "90.0",
       "0.0", "0.0", "1.0" >>

\* constants.py:28-32  Link(rel, target, title)
LICENSE_LINK ==
    [rel |-> "license",
     target |-> "https://earthdata.nasa.gov/earth-observation-data/data-use-policy",
     title |-> "EOSDIS Data Use Policy"]

\* constants.py:34-73  Provider(name, roles, url)
PROVIDERS ==
    << [name |-> "FAO",
        roles |-> <<"host", "licensor", "processor", "producer">>,
        url |-> "https://www.fao.org/"],
       [name |-> "IIASA", roles |-> <<"licensor", "producer">>,
        url |-> "https://iiasa.ac.at/"],
       [name |-> "ISRIC", roles |-> <<"licensor", "producer">>,
        url |-> "https://www.isric.org/"],
       [name |-> "ISS-CAS", roles |-> <<"licensor", "producer">>,
        url |-> "http://english.issas.cas.cn/"],
       [name |-> "JRC", roles |-> <<"licensor", "producer">>,
        url |-> "https://esdac.jrc.ec.europa.eu/"],
       [name |-> "ORNL", roles |-> <<"host", "processor">>,
        url |-> "https://www.ornl.gov/"],
       [name |-> "NCAR", roles |-> <<"producer", "processor">>,
        url |-> "https://ncar.ucar.edu/"] >>

\* constants.py:75-81
KEYWORDS ==
    << "HWSD", "Soil", "Soils", "Harmonized World Soil Database", "regridded" >>

\* constants.py:88
NO_DATA == -1

\* constants.py:1-224  every name the module constants.py binds at top level:
\* its imports (lines 3-7) and its assignments.
ConstantsNames ==
    { "Any", "Dict", "CRS", "Link", "Provider", "ProviderRole", "DataType",
      "ID", "EPSG", "HWSD_CRS", "SPATIAL_EXTENT", "TEMPORAL_EXTENT", "TITLE",
      "DESCRIPTION", "SHAPE", "TRANSFORM", "HOMEPAGE_REGRIDDED_URL",
      "HOMEPAGE_2_URL", "HOMEPAGE_1_URL", "DOCUMENTATION_URL", "LICENSE",
      "LICENSE_LINK", "PROVIDERS", "KEYWORDS", "CITATION", "DOI",
      "THUMBNAIL_URL", "NO_DATA", "ASSET_DATA_TYPES", "ASSET_DESCRIPTIONS",
      "ASSET_UNITS", "ASSET_NOTES", "ASSET_LABELS" }

(***************************************************************************)
(* Python strings and paths                                                *)
(***************************************************************************)

\* "".join(s): a character sequence as one string (the form of a dict key).
RECURSIVE Str(_)
Str(s) == IF s = << >> THEN "" ELSE Head(s) \o Str(Tail(s))

\* str.replace(old, new): every non-overlapping occurrence of old, found left
\* to right, is replaced; the text put in is not scanned again.
RECURSIVE replace(_, _, _)
replace(s, old, new) ==
    IF Len(s) < Len(old) THEN s
    ELSE IF SubSeq(s, 1, Len(old)) = old
         THEN new \o replace(SubSeq(s, Len(old) + 1, Len(s)), old, new)
         ELSE << Head(s) >> \o replace(Tail(s), old, new)

\* os.path.basename(href): what follows the last "/".
basename(href) ==
    LET slashes == { i \in 1..Len(href) : href[i] = "/" }
        last == CHOOSE i \in slashes : \A j \in slashes : j <= i
    IN  IF slashes = {} THEN href ELSE SubSeq(href, last + 1, Len(href))

\* stac.py:69  the two suffix literals
NC4 == << ".", "n", "c", "4" >>
TIF == << ".", "t", "i", "f" >>

\* stac.py:68-69
\*   os.path.basename(href).replace(".nc4", "").replace(".tif", "")
asset_name_from_href(href) ==
    Str(replace(replace(basename(href), NC4, << >>), TIF, << >>))

(***************************************************************************)
(* shapely.geometry.box and get_geometry                                   *)
(***************************************************************************)

Reverse(s) == [i \in 1..Len(s) |-> s[Len(s) + 1 - i]]

\* shapely.geometry.box(minx, miny, maxx, maxy, ccw): the corners are listed
\* from (maxx, miny), reversed when ccw is false, and the Polygon's exterior
\* ring repeats its first point at the end.  The arguments are taken by
\* position and are not ordered by the function.
box(minx, miny, maxx, maxy, ccw) ==
    LET corners == << <<maxx, miny>>, <<maxx, maxy>>,
                      <<minx, maxy>>, <<minx, miny>> >>
        coords == IF ccw THEN corners ELSE Reverse(corners)
    IN  coords \o << coords[1] >>

\* stac.py:72-75
get_geometry ==
    LET polygon == box(SPATIAL_EXTENT[1], SPATIAL_EXTENT[2],
                       SPATIAL_EXTENT[3], SPATIAL_EXTENT[4], TRUE)
    IN  [type |-> "Polygon", coordinates |-> << polygon >>]

\* Twice the signed area of a ring (the shoelace sum): positive exactly when
\* the ring runs counter-clockwise.
RECURSIVE Shoelace(_, _)
Shoelace(ring, i) ==
    IF i >= Len(ring) THEN 0
    ELSE ring[i][1] * ring[i + 1][2] - ring[i + 1][1] * ring[i][2]
         + Shoelace(ring, i + 1)

(***************************************************************************)
(* pystac objects, as far as stac.py fills them                            *)
(***************************************************************************)

\* Python's None, where a str, a callable or an object may stand instead.
None == "None"

\* pystac.utils.str_to_datetime: the parsed instant (the text is kept as its
\* ISO form; datetime_to_str gives it back).
str_to_datetime(s) == [class |-> "datetime", iso |-> s]

datetime_to_str(dt) == dt.iso

\* pyproj CRS.to_wkt(): the WKT2 text of the CRS, known by what it describes.
to_wkt(crs) == [class |-> "wkt2", of |-> crs]

\* pystac.Link(rel, target, title)
Link(rel, target, title) == [rel |-> rel, target |-> target, title |-> title]

\* pystac.Asset(href, media_type, roles, title, description, extra_fields)
Asset(href, media_type, roles, title, description, extra_fields) ==
    [class |-> "Asset", href |-> href, media_type |-> media_type,
     roles |-> roles, title |-> title, description |-> description,
     extra_fields |-> extra_fields]

\* An empty dict.
EmptyDict == [k \in {} |-> None]

\* stac.py:107-114 and 202-208  the three "via" links both builders add
HomepageLinks ==
    << Link("via", HOMEPAGE_1_URL, "Homepage"),
       Link("via", HOMEPAGE_2_URL, "Homepage, Alternate"),
       Link("via", HOMEPAGE_REGRIDDED_URL, "Homepage, Regridded") >>

(***************************************************************************)
(* create_collection                                                       *)
(***************************************************************************)

\* item_assets gone wrong: one data template per catalog entry, keyed by the
\* variable name, beside the documentation template.
item_assets_per_variable ==
       [name \in DOMAIN ASSET_DESCRIPTIONS |->
            (   "types" :> "image/tiff; application=geotiff; profile=cloud-optimized"
             @@ "roles" :> << "data" >>
             @@ "title" :> name)]
    @@ "documentation" :>
          (   "types" :> "application/pdf"
           @@ "roles" :> << "documentation", "metadata" >>
           @@ "title" :> "Documentation")

\* stac.py:141-160  the item-asset templates, keyed as the code keys them
item_assets ==
       "data" :>
          (   "types" :> "image/tiff; application=geotiff; profile=cloud-optimized"
           @@ "roles" :> << "data" >>
           @@ "proj:epsg" :> EPSG
           @@ "proj:wkt2" :> to_wkt(HWSD_CRS)
           @@ "proj:bbox" :> SPATIAL_EXTENT
           @@ "proj:geometry" :> get_geometry
           @@ "proj:shape" :> SHAPE
           @@ "proj:transform" :> TRANSFORM)
    @@ "documentation" :>
          (   "types" :> "application/pdf"
           @@ "roles" :> << "documentation", "metadata" >>
           @@ "title" :> "Documentation")

(***************************************************************************)
(* The program's state                                                     *)
(***************************************************************************)

VARIABLES
    catalog,     \* the five module-level tables of constants.py (Python dicts)
    shared,      \* the mutable objects constants.py binds and the builders
                 \* hand out by reference, as they now are
    result,      \* the last call: its arguments, what it raised or returned,
                 \* the paths it handed to fsspec.open and the files it wrote
    written,     \* the files the commands have written: path -> JSON document
    dirs,        \* the directories that exist
    cogs,        \* the COG files the conversions have written, by path
    history,     \* what each finished call raised ("none": it returned), oldest first
    returned     \* the records the builders have returned, oldest first

vars == << catalog, shared, result, written, dirs, cogs, history, returned >>

\* The call's place among the calls of the behaviour: it names the record
\* the call builds.
Serial == Len(history) + 1

\* A record handed to the caller: the call that built it, its content, the
\* module-level objects it refers to, and what those objects were when the
\* call returned.
Handed(serial, value, aliases, objects) ==
    [serial |-> serial, value |-> value, aliases |-> aliases,
     seen |-> [name \in aliases |-> objects[name]]]

\* constants.py:202-224  The objects as the import of constants.py leaves
\* them.  A pystac Link has an owner, the object it was added to: none yet.
SharedAsLoaded ==
    [LICENSE_LINK |-> [link |-> LICENSE_LINK, owner |-> << >>],
     PROVIDERS |-> PROVIDERS,
     KEYWORDS |-> KEYWORDS,
     SPATIAL_EXTENT |-> SPATIAL_EXTENT,
     SHAPE |-> SHAPE,
     TRANSFORM |-> TRANSFORM]

\* stac.py:106  collection.add_link(LICENSE_LINK): pystac's add_link calls
\* link.set_owner(self) on the Link it is given, here the module's own
\* object, and appends that object to the Collection's links.
add_link(objects, owner) ==
    [objects EXCEPT !.LICENSE_LINK.owner = << owner >>]

\* The links of a Collection with the owner of the license link kept in the
\* value.
collection_links_with_owner == << shared.LICENSE_LINK >> \o HomepageLinks

\* stac.py:106-114  The links of the Collection: the module's license link
\* as it now reads (rel, target and title; the owner is no part of the
\* link's content), then the three new "via" links.
collection_links == << shared.LICENSE_LINK.link >> \o HomepageLinks

\* stac.py:91-106 and 149-152  The module-level objects a Collection refers
\* to: none of them is copied on the way in.
collection_aliases ==
    { "LICENSE_LINK", "PROVIDERS", "KEYWORDS", "SPATIAL_EXTENT", "SHAPE",
      "TRANSFORM" }

\* stac.py:194-220  The module-level objects an Item refers to.
item_aliases == { "SPATIAL_EXTENT", "SHAPE", "TRANSFORM" }

\* stac.py:78-162
create_collection ==
    LET temporal_extent ==
            [i \in 1..Len(TEMPORAL_EXTENT) |-> str_to_datetime(TEMPORAL_EXTENT[i])]
        extent == [spatial |-> << SPATIAL_EXTENT >>,
                   temporal |-> << temporal_extent >>]
    IN  [class |-> "Collection",
         id |-> ID,
         title |-> TITLE,
         description |-> DESCRIPTION,
         keywords |-> KEYWORDS,
         license |-> LICENSE,
         providers |-> PROVIDERS,
         extent |-> extent,
         catalog_type |-> "RELATIVE_PUBLISHED",
         links |-> collection_links,
         summaries |-> ("proj:epsg" :> << EPSG >>),
         stac_extensions |-> << "scientific", "item-assets" >>,
         extra_fields |->
               "sci:doi" :> DOI
            @@ "sci:citation" :> CITATION
            @@ "item_assets" :> item_assets,
         assets |->
               "documentation" :>
                   Asset(DOCUMENTATION_URL, "application/pdf",
                         << "documentation", "metadata" >>, "Documentation",
                         None, EmptyDict)
            @@ "thumbnail" :>
                   Asset(THUMBNAIL_URL, "image/png", << "thumbnail" >>,
                         "Thumbnail", None, EmptyDict)]

(***************************************************************************)
(* What the hrefs point to                                                 *)
(***************************************************************************)

\* Where the hrefs of the model point.
LocalRoot == << "/", "d", "/" >>
SignedRoot == << "/", "r", "/" >>
NoLengthRoot == << "/", "n", "/" >>
MissingRoot == << "/", "m", "/" >>

\* The ReadHrefModifier values a caller passes (stac.py:167): none, a signer
\* that appends an access key, and a resolver that names the blob to read.
sign == "sign"
blob == "blob"

Modifiers == { None, sign, blob }

AccessKey == << "?", "k" >>
BlobPath == LocalRoot \o << "0", "a", "f", "3" >>

\* cog_href_modifier(cog_href)
CallModifier(modifier, href) ==
    IF modifier = sign THEN href \o AccessKey ELSE BlobPath

EndsWith(s, suffix) ==
    /\ Len(s) >= Len(suffix)
    /\ SubSeq(s, Len(s) - Len(suffix) + 1, Len(s)) = suffix

\* The storage behind the hrefs: what `with fsspec.open(path) as file` finds
\* and what file.size is then (stac.py:281-282).  /d/ holds local files, which
\* have a size; /r/ is a store that serves only signed requests; /n/ answers
\* without a length; nothing else exists.
Storage(path) ==
    LET root == SubSeq(path, 1, 3)
        signed == EndsWith(path, AccessKey)
    IN  IF root = LocalRoot /\ ~signed
            THEN [found |-> TRUE, size |-> << 1000 + Len(path) >>]
        ELSE IF root = SignedRoot /\ signed
            THEN [found |-> TRUE, size |-> << 2000 + Len(path) >>]
        ELSE IF root = NoLengthRoot
            THEN [found |-> TRUE, size |-> << >>]
        ELSE [found |-> FALSE, size |-> << >>]

(***************************************************************************)
(* create_item                                                             *)
(***************************************************************************)

\* A call that ended in an exception, and one that returned.
Raise(exception, paths) ==
    [raised |-> exception, value |-> None, opened |-> paths]

Return(value, paths) ==
    [raised |-> "none", value |-> value, opened |-> paths]

\* dict.values() and dict.items() of one ASSET_LABELS entry, in its order
values(pairs) == [i \in 1..Len(pairs) |-> pairs[i][2]]

\* stac.py:257-270  the label fields put on the Item's properties
label_properties(asset_name) ==
    IF asset_name \in DOMAIN catalog.ASSET_LABELS
    THEN    "label:type" :> "raster"
         @@ "label:tasks" :> << "classification" >>
         @@ "label:properties" :> None
         @@ "label:description" :> catalog.ASSET_DESCRIPTIONS[asset_name]
         @@ "label:classes" :>
                << [classes |-> values(catalog.ASSET_LABELS[asset_name]),
                    name |-> ""] >>
    ELSE EmptyDict

\* stac.py:274-280  the file extension's value mapping
file_values(asset_name) ==
    IF asset_name \in DOMAIN catalog.ASSET_LABELS
    THEN "file:values" :>
             [i \in 1..Len(catalog.ASSET_LABELS[asset_name]) |->
                 [values |-> << catalog.ASSET_LABELS[asset_name][i][1] >>,
                  summary |-> catalog.ASSET_LABELS[asset_name][i][2]]]
    ELSE EmptyDict

\* stac.py:281-284  size is attached when file.size is not None
file_size(file) ==
    IF file.size # << >> THEN "file:size" :> file.size[1] ELSE EmptyDict

\* data_roles gone wrong: the label roles are added outside the test for
\* class labels.
data_roles_always_labelled(asset_name) ==
    << "data", "labels", "labels-raster" >>

\* stac.py:234-236
data_roles(asset_name) ==
    IF asset_name \in DOMAIN catalog.ASSET_LABELS
    THEN << "data", "labels", "labels-raster" >>
    ELSE << "data" >>

\* stac.py:229-233
data_extra_fields(asset_name) ==
    ("units" :> catalog.ASSET_UNITS[asset_name])
    @@ (IF asset_name \in DOMAIN catalog.ASSET_NOTES
        THEN "notes" :> catalog.ASSET_NOTES[asset_name]
        ELSE EmptyDict)

\* stac.py:214-220 and 247-255  the projection fields, the same on the Item
\* and on its data asset
projection(geometry) ==
       "proj:epsg" :> EPSG
    @@ "proj:wkt2" :> to_wkt(HWSD_CRS)
    @@ "proj:bbox" :> SPATIAL_EXTENT
    @@ "proj:geometry" :> geometry
    @@ "proj:shape" :> SHAPE
    @@ "proj:transform" :> TRANSFORM

\* raster_bands gone wrong: the data type is fixed, not looked up.
raster_bands_fixed_type(asset_name) ==
    "raster:bands" :>
        << [nodata |-> NO_DATA, sampling |-> "area", data_type |-> "float64"] >>

\* stac.py:286-295
raster_bands(asset_name) ==
    "raster:bands" :>
        << [nodata |-> NO_DATA, sampling |-> "area",
            data_type |-> catalog.ASSET_DATA_TYPES[asset_name]] >>

\* stac.py:194-297  the Item as it stands at the return statement
build_item(cog_href, asset_name, file) ==
    LET geometry == get_geometry
        properties ==
               "title" :> asset_name
            @@ "description" :> catalog.ASSET_DESCRIPTIONS[asset_name]
            @@ "start_datetime" :> TEMPORAL_EXTENT[1]
            @@ "end_datetime" :> TEMPORAL_EXTENT[2]
            @@ "sci:citation" :> CITATION
            @@ "sci:doi" :> DOI
            @@ projection(geometry)
            @@ label_properties(asset_name)
        data_asset ==
            Asset(cog_href,
                  "image/tiff; application=geotiff; profile=cloud-optimized",
                  data_roles(asset_name), asset_name,
                  catalog.ASSET_DESCRIPTIONS[asset_name],
                     data_extra_fields(asset_name)
                  @@ projection(geometry)
                  @@ file_values(asset_name)
                  @@ file_size(file)
                  @@ raster_bands(asset_name))
    IN  [class |-> "Item",
         id |-> asset_name,
         geometry |-> geometry,
         bbox |-> SPATIAL_EXTENT,
         datetime |-> str_to_datetime(TEMPORAL_EXTENT[1]),
         properties |-> properties,
         links |-> HomepageLinks,
         stac_extensions |->
             << "scientific", "projection" >>
             \o (IF asset_name \in DOMAIN catalog.ASSET_LABELS
                 THEN << "label" >> ELSE << >>)
             \o << "file", "raster" >>,
         assets |->
               "documentation" :>
                   Asset(DOCUMENTATION_URL, "application/pdf",
                         << "documentation", "metadata" >>,
                         "HWSD Documentation", None, EmptyDict)
            @@ "data" :> data_asset]

\* access_href gone wrong: the modifier is not applied.
access_href_unmodified(cog_href, cog_href_modifier) == cog_href

\* stac.py:180-183
access_href(cog_href, cog_href_modifier) ==
    IF cog_href_modifier # None
    THEN CallModifier(cog_href_modifier, cog_href)
    ELSE cog_href

\* create_item gone wrong: the tables are read with dict.get, so that an
\* unknown name raises nothing and an Item without catalog values comes back.
create_item_dict_get(cog_href, cog_href_modifier) ==
    LET cog_access_href == access_href(cog_href, cog_href_modifier)
        asset_name == asset_name_from_href(cog_href)
        file == Storage(cog_access_href)
    IN  IF ~file.found
            THEN Raise("FileNotFoundError", << cog_access_href >>)
        ELSE IF asset_name \notin DOMAIN catalog.ASSET_DESCRIPTIONS
            THEN Return([class |-> "Item", id |-> asset_name,
                         properties |-> ("title" :> asset_name
                                         @@ "description" :> None)],
                        << cog_access_href >>)
        ELSE Return(build_item(cog_href, asset_name, file),
                    << cog_access_href >>)

\* stac.py:165-297  Each subscript of a table raises KeyError on a missing
\* key, in the order of the statements: the description (line 189) and the
\* unit (230) before the file is opened (281), the data type (292) after it.
\* Opening a path that is not there raises out of the with statement.
create_item_of(cog_href, cog_access_href, file) ==
    LET asset_name == asset_name_from_href(cog_href)
    IN  IF asset_name \notin DOMAIN catalog.ASSET_DESCRIPTIONS
            THEN Raise("KeyError", << >>)
        ELSE IF asset_name \notin DOMAIN catalog.ASSET_UNITS
            THEN Raise("KeyError", << >>)
        ELSE IF ~file.found
            THEN Raise("FileNotFoundError", << cog_access_href >>)
        ELSE IF asset_name \notin DOMAIN catalog.ASSET_DATA_TYPES
            THEN Raise("KeyError", << cog_access_href >>)
        ELSE Return(build_item(cog_href, asset_name, file),
                    << cog_access_href >>)

\* stac.py:165-297  create_item on the storage of the model: the file is what
\* the access href points to.
create_item(cog_href, cog_href_modifier) ==
    create_item_of(cog_href, access_href(cog_href, cog_href_modifier),
                   Storage(access_href(cog_href, cog_href_modifier)))

(***************************************************************************)
(* JSON documents: to_dict and from_dict of pystac                         *)
(***************************************************************************)

Without(f, keys) == [k \in DOMAIN f \ keys |-> f[k]]

AssetCoreKeys == { "href", "type", "title", "description", "roles" }

\* Asset.to_dict: the extra fields lie beside the core ones; a description of
\* None is left out.
asset_to_dict(asset) ==
       ("href" :> asset.href @@ "type" :> asset.media_type
        @@ "title" :> asset.title @@ "roles" :> asset.roles)
    @@ (IF asset.description # None
        THEN "description" :> asset.description ELSE EmptyDict)
    @@ asset.extra_fields

\* Asset.from_dict: what is not a core key is an extra field.
asset_from_dict(d) ==
    Asset(d["href"], d["type"], d["roles"], d["title"],
          IF "description" \in DOMAIN d THEN d["description"] ELSE None,
          Without(d, AssetCoreKeys))

\* Item.to_dict: a GeoJSON Feature; the datetime goes into the properties as
\* text.
item_to_dict(item) ==
    [type |-> "Feature",
     id |-> item.id,
     properties |-> ("datetime" :> datetime_to_str(item.datetime))
                    @@ item.properties,
     geometry |-> item.geometry,
     bbox |-> item.bbox,
     links |-> item.links,
     stac_extensions |-> item.stac_extensions,
     assets |-> [k \in DOMAIN item.assets |-> asset_to_dict(item.assets[k])]]

\* Item.from_dict
item_from_dict(d) ==
    [class |-> "Item",
     id |-> d.id,
     geometry |-> d.geometry,
     bbox |-> d.bbox,
     datetime |-> str_to_datetime(d.properties["datetime"]),
     properties |-> d.properties,
     links |-> d.links,
     stac_extensions |-> d.stac_extensions,
     assets |-> [k \in DOMAIN d.assets |-> asset_from_dict(d.assets[k])]]

CollectionCoreKeys ==
    { "type", "id", "title", "description", "keywords", "license",
      "providers", "extent", "links", "summaries", "stac_extensions",
      "assets" }

\* Collection.to_dict: the extra fields (sci:doi, sci:citation, item_assets)
\* lie beside the core ones.
collection_to_dict(c) ==
       (   "type" :> "Collection"
        @@ "id" :> c.id
        @@ "title" :> c.title
        @@ "description" :> c.description
        @@ "keywords" :> c.keywords
        @@ "license" :> c.license
        @@ "providers" :> c.providers
        @@ "extent" :>
               [spatial |-> [bbox |-> c.extent.spatial],
                temporal |->
                    [interval |->
                        [i \in 1..Len(c.extent.temporal) |->
                            [j \in 1..Len(c.extent.temporal[i]) |->
                                datetime_to_str(c.extent.temporal[i][j])]]]]
        @@ "links" :> c.links
        @@ "summaries" :> c.summaries
        @@ "stac_extensions" :> c.stac_extensions
        @@ "assets" :> [k \in DOMAIN c.assets |-> asset_to_dict(c.assets[k])])
    @@ c.extra_fields

\* Collection.from_dict
collection_from_dict(d) ==
    [class |-> "Collection",
     id |-> d["id"],
     title |-> d["title"],
     description |-> d["description"],
     keywords |-> d["keywords"],
     license |-> d["license"],
     providers |-> d["providers"],
     extent |->
        [spatial |-> d["extent"].spatial.bbox,
         temporal |->
            [i \in 1..Len(d["extent"].temporal.interval) |->
                [j \in 1..Len(d["extent"].temporal.interval[i]) |->
                    str_to_datetime(d["extent"].temporal.interval[i][j])]]],
     catalog_type |-> "RELATIVE_PUBLISHED",
     links |-> d["links"],
     summaries |-> d["summaries"],
     stac_extensions |-> d["stac_extensions"],
     extra_fields |-> Without(d, CollectionCoreKeys),
     assets |-> [k \in DOMAIN d["assets"] |-> asset_from_dict(d["assets"][k])]]

\* pystac.read_file(path) on a file a command wrote
read_file(path) ==
    IF written[path]["type"] = "Feature"
    THEN item_from_dict(written[path])
    ELSE collection_from_dict(written[path])

(***************************************************************************)
(* Inputs                                                                  *)
(***************************************************************************)

\* File names that are no plain <name>.tif or <name>.nc4: an unknown name, a name in
\* lower case, no suffix, a suffix in the middle, a suffix that appears once
\* another is taken out, two suffixes, a further suffix, a longer name, a
\* suffix in upper case.
OddNames ==
    { << "u", "n", "k", "n", "o", "w", "n", "_", "v", "a", "r", ".", "t", "i", "f" >>,
      << "a", "w", "c", "_", "c", "l", "a", "s", "s", ".", "t", "i", "f" >>,
      << "T", "_", "S", "A", "N", "D" >>,
      << "T", "_", ".", "t", "i", "f", "S", "A", "N", "D", ".", "t", "i", "f" >>,
      << "T", "_", "S", ".", "n", "c", "4", "A", "N", "D", ".", "t", "i", "f" >>,
      << "T", "_", "S", "A", "N", "D", ".", "t", ".", "n", "c", "4", "i", "f" >>,
      << "A", "W", "C", "_", "C", "L", "A", "S", "S", ".", "n", "c", "4", ".", "t", "i", "f" >>,
      << "T", "_", "S", "A", "N", "D", ".", "t", "i", "f", ".", "b", "a", "k" >>,
      << "X", "T", "_", "S", "A", "N", "D", ".", "t", "i", "f" >>,
      << "T", "_", "S", "A", "N", "D", ".", "T", "I", "F" >>,
      << "T", "_", "S", "A", "N", "D", "Y", ".", "t", "i", "f" >> }

\* AWC_CLASS, ISSOIL and T_SAND: two variables with class labels and one
\* without, used where the storage differs.
SampleStems == { RegisteredStems[1], RegisteredStems[2], RegisteredStems[16] }

\* The hrefs handed to create_item: every registered name as a local .tif, a
\* few names on each other storage and as .nc4, and the odd file names.
Hrefs ==
         { LocalRoot \o RegisteredStems[i] \o TIF :
               i \in 1..Len(RegisteredStems) }
    \cup { root \o stem \o TIF :
               root \in { SignedRoot, NoLengthRoot, MissingRoot },
               stem \in SampleStems }
    \cup { LocalRoot \o stem \o NC4 : stem \in SampleStems }
    \cup { LocalRoot \o name : name \in OddNames }

\* The sources given to the create-item command.
CommandSources ==
    { LocalRoot \o RegisteredStems[1] \o TIF,
      LocalRoot \o RegisteredStems[14] \o TIF,
      MissingRoot \o RegisteredStems[1] \o TIF,
      LocalRoot \o << "u", "n", "k", "n", "o", "w", "n", "_", "v", "a", "r",
                      ".", "t", "i", "f" >> }

\* The destinations given to the commands: a file for create-item, a
\* directory for create-collection.
ItemDestinations ==
    { << "/", "o", "/", "i", "t", "e", "m", ".", "j", "s", "o", "n" >>,
      << "/", "p", "/", "i", "t", "e", "m", ".", "j", "s", "o", "n" >> }

Directories == { << "/", "o" >>, << "/", "p" >> }

\* The directories there are before the first call: /o is, /p is not.
ExistingDirectories == { "/", "/d", "/o", "/s", "/t" }

\* The calls a behaviour makes.
MaxCalls == 2

\* cog.py:28  the file create_cogs leaves out
HWSD_SOIL_CLM_RES ==
    << "H", "W", "S", "D", "_", "S", "O", "I", "L", "_", "C", "L", "M", "_",
       "R", "E", "S", ".", "n", "c", "4" >>

\* The names of the NetCDF files of the source directory, less their suffix:
\* two registered names, the file create_cogs leaves out, and a name the
\* tables do not have.
SourceStems ==
    { RegisteredStems[1], RegisteredStems[16],
      << "H", "W", "S", "D", "_", "S", "O", "I", "L", "_", "C", "L", "M",
         "_", "R", "E", "S" >>,
      << "u", "n", "k", "n", "o", "w", "n", "_", "v", "a", "r" >> }

\* The source directories: /s holds a file of every name, /t only files
\* create_cogs can convert or leaves out.
SourceDirectory == << "/", "s" >>
CleanDirectory == << "/", "t" >>
SourceDirectories == { SourceDirectory, CleanDirectory }

\* The NetCDF files there are.
SourceFiles ==
         { SourceDirectory \o << "/" >> \o stem \o NC4 :
               stem \in SourceStems }
    \cup { CleanDirectory \o << "/" >> \o stem \o NC4 :
               stem \in SourceStems
                   \ { << "u", "n", "k", "n", "o", "w", "n", "_", "v", "a",
                          "r" >> } }

\* The orders in which a directory may list its files: every order of the
\* three names create_cogs handles, the file it leaves out listed second.
Listings ==
    { listing \in [1..Cardinality(SourceStems) -> SourceStems] :
          /\ \A i, j \in 1..Cardinality(SourceStems) :
                 listing[i] = listing[j] => i = j
          /\ listing[2] \o NC4 = HWSD_SOIL_CLM_RES }

\* The files gdal_translate may fail on: those of any of the two names it
\* could convert.
Unconvertible ==
    { { directory \o << "/" >> \o stem \o NC4 :
            directory \in SourceDirectories, stem \in stems } :
      stems \in SUBSET { RegisteredStems[1], RegisteredStems[16] } }

\* The sources given to create_cog and to the create-cog command: a
\* registered name, a name the tables do not have, a file that is not there.
CogSources ==
    { SourceDirectory \o << "/" >> \o RegisteredStems[1] \o NC4,
      SourceDirectory \o << "/" >> \o << "u", "n", "k", "n", "o", "w", "n",
                                         "_", "v", "a", "r" >> \o NC4,
      MissingRoot \o RegisteredStems[16] \o NC4 }

\* The output paths given to create_cog.
CogOutputs ==
    { << "/", "o", "/" >> \o RegisteredStems[1] \o TIF,
      << "/", "o", "/" >> \o RegisteredStems[2] \o TIF,
      << "/", "p", "/" >> \o RegisteredStems[16] \o TIF,
      << "/", "o", "/" >> \o << "u", "n", "k", "n", "o", "w", "n", "_", "v",
                                 "a", "r" >> \o TIF }

(***************************************************************************)
(* The imports of cog.py and commands.py                                   *)
(***************************************************************************)

\* cog.py:7  from stactools.hwsd.constants import DATA_TYPES, NO_DATA
CogImports == { "DATA_TYPES", "NO_DATA" }

\* cog.py:7-8  Executing cog.py: a from-import of a name the module does not
\* bind raises ImportError.
import_cog ==
    IF CogImports \subseteq ConstantsNames THEN "none" ELSE "ImportError"

\* commands.py:7  from stactools.hwsd import cog, stac.  The commands exist
\* once this module has been executed; its import of cog comes first.
import_commands == import_cog

(***************************************************************************)
(* cog.py: the conversion of NetCDF files to COGs                          *)
(***************************************************************************)

\* cog.py:76  str(NO_DATA)
str(n) == ToString(n)

\* cog.py:7  What constants.py binds the names to that cog.py takes from it.
\* A name is looked up here only after the import has succeeded.
constants_module ==
       "NO_DATA" :> NO_DATA
    @@ "ASSET_DATA_TYPES" :> catalog.ASSET_DATA_TYPES

imported(name) == constants_module[name]

\* os.path.dirname(path)
dirname(path) ==
    LET slashes == { i \in 1..Len(path) : path[i] = "/" }
        last == CHOOSE i \in slashes : \A j \in slashes : j <= i
    IN  IF slashes = {} THEN << >>
        ELSE IF last = 1 THEN << "/" >>
        ELSE SubSeq(path, 1, last - 1)

\* os.path.join(directory, name), as the key of the file
join(directory, name) == Str(directory) \o "/" \o name

\* os.path.join(directory, name) of a relative name
path_join(directory, name) ==
    IF directory = << >> \/ directory[Len(directory)] = "/"
    THEN directory \o name
    ELSE directory \o << "/" >> \o name

\* cog.py:50-52, 87, 101  one record of the module's logger
Log(level, message) == [level |-> level, message |-> message]

\* cog.py:53-79  the command line handed to check_output
gdal_command(data_type, nodata, input_path, output_path) ==
    << "gdal_translate", "-ot", data_type, "-of", "COG",
       "-co", "NUM_THREADS=ALL_CPUS", "-co", "BLOCKSIZE=512",
       "-co", "COMPRESS=DEFLATE", "-co", "LEVEL=9", "-co", "PREDICTOR=YES",
       "-co", "OVERVIEWS=IGNORE_EXISTING", "-a_nodata", nodata,
       Str(input_path), Str(output_path) >>

\* cog.py:82  check_output(cmd): gdal_translate runs to its end.  It exits
\* with a non-zero status when it cannot read the input (no such file, or a
\* file it cannot convert) or cannot write into the output's directory;
\* check_output then raises CalledProcessError carrying what was printed.
check_output(cmd, input_path, output_path, env) ==
    IF \/ input_path \notin env.inputs
       \/ input_path \in env.fails
       \/ Str(dirname(output_path)) \notin env.dirs
    THEN [exit |-> 1, output |-> "b'ERROR'"]
    ELSE [exit |-> 0, output |-> "b'done'"]

\* What a conversion did: what it raised, the commands it ran, the records
\* it logged, the COG files there are afterwards.
Converted(raised, invoked, logged, cogs_after) ==
    [raised |-> raised, invoked |-> invoked, logged |-> logged,
     cogs |-> cogs_after]

\* Nothing was converted: cog.py did not load.
NotConverted(env) == Converted(import_cog, << >>, << >>, env.cogs)

\* cog.py:34-102  create_cog(input_path, output_path)
create_cog(input_path, output_path, env) ==
    IF import_cog # "none" THEN NotConverted(env)
    ELSE
    LET asset_name == asset_name_from_href(output_path)
        started ==
            << Log("info", "Converting NetCDF to COG"),
               Log("debug", "input_path: " \o Str(input_path)),
               Log("debug", "output_path: " \o Str(output_path)) >>
        failed ==
            << Log("error", "Failed to process " \o Str(output_path)) >>
    IN  IF asset_name \notin DOMAIN imported("DATA_TYPES")
        THEN Converted("KeyError", << >>, started \o failed, env.cogs)
        ELSE
        LET cmd == gdal_command(imported("DATA_TYPES")[asset_name],
                                str(imported("NO_DATA")),
                                input_path, output_path)
            run == check_output(cmd, input_path, output_path, env)
            output == << Log("info", "output: " \o run.output) >>
        IN  IF run.exit # 0
            THEN Converted("CalledProcessError", << cmd >>,
                           started \o output \o failed, env.cogs)
            ELSE Converted("none", << cmd >>, started \o output,
                           env.cogs \cup { output_path })

\* The characters of asset_name_from_href(href)
asset_name_chars(href) ==
    replace(replace(basename(href), NC4, << >>), TIF, << >>)

\* glob(f"{directory}/*{suffix}"): the files of the directory whose names end
\* in the suffix, in the order the directory lists them.  listing is that
\* order, given on the names less their suffix.
glob(directory, suffix, present, listing) ==
    LET candidate(stem) == path_join(directory, stem \o suffix)
        there(stem) == candidate(stem) \in present
        stems == SelectSeq(listing, there)
    IN  [i \in 1..Len(stems) |-> candidate(stems[i])]

\* A run of conversions with one more call added
Added(so_far, call) ==
    Converted(call.raised, so_far.invoked \o call.invoked,
              so_far.logged \o call.logged, call.cogs)

\* cog.py:27-31  the loop of create_cogs over the files still to come: the
\* first conversion that raises ends it.
RECURSIVE convert_each(_, _, _, _)
convert_each(in_files, output_directory, env, so_far) ==
    IF in_files = << >> \/ so_far.raised # "none" THEN so_far
    ELSE IF basename(Head(in_files)) = HWSD_SOIL_CLM_RES
    THEN convert_each(Tail(in_files), output_directory, env, so_far)
    ELSE convert_each(
             Tail(in_files), output_directory, env,
             Added(so_far,
                   create_cog(Head(in_files),
                              path_join(output_directory,
                                        asset_name_chars(Head(in_files))
                                            \o TIF),
                              [env EXCEPT !.cogs = so_far.cogs])))

\* cog.py:13-31  create_cogs(input_directory, output_directory)
create_cogs(input_directory, output_directory, listing, env) ==
    IF import_cog # "none" THEN NotConverted(env)
    ELSE convert_each(glob(input_directory, NC4, env.inputs, listing),
                      output_directory, env,
                      Converted("none", << >>, << >>, env.cogs))

(***************************************************************************)
(* The command line: commands.py                                           *)
(***************************************************************************)

\* What a command did: the call's outcome, the files afterwards and the paths
\* it wrote.
Outcome(call, files, wrote, objects, directories) ==
    [raised |-> call.raised, value |-> call.value, opened |-> call.opened,
     files |-> files, wrote |-> wrote, shared |-> objects,
     dirs |-> directories]

\* Importing the commands failed: nothing was done.
NotLoaded == Outcome(Raise(import_commands, << >>), written, {}, shared, dirs)

\* commands.py:31-42  create-collection: the Collection is saved under the
\* destination as collection.json, then validated (the validator is taken to
\* accept the document).
create_collection_command(destination) ==
    IF import_commands # "none" THEN NotLoaded
    ELSE LET collection == create_collection
             path == join(destination, "collection.json")
         IN  Outcome(Return(None, << >>),
                     (path :> collection_to_dict(collection)) @@ written,
                     { path }, add_link(shared, Serial),
                     dirs \cup { Str(destination) })

\* commands.py:57-68  create-item: the Item is built from the source href with
\* no href modifier, saved to the destination, then validated.
create_item_command(source, destination) ==
    IF import_commands # "none" THEN NotLoaded
    ELSE LET call == create_item(source, None)
         IN  IF call.raised # "none"
             THEN Outcome(call, written, {}, shared, dirs)
             ELSE Outcome(Return(None, call.opened),
                          (Str(destination) :> item_to_dict(call.value))
                              @@ written,
                          { Str(destination) }, shared,
                          dirs \cup { Str(dirname(destination)) })

\* What a command that may convert files did: the command's outcome and the
\* conversion's.
Worked(outcome, conversion) ==
    [raised |-> outcome.raised, value |-> outcome.value,
     opened |-> outcome.opened, files |-> outcome.files,
     wrote |-> outcome.wrote, shared |-> outcome.shared,
     dirs |-> outcome.dirs, cogs |-> conversion.cogs,
     invoked |-> conversion.invoked, logged |-> conversion.logged]

\* What the converter finds: the NetCDF files there are, those it cannot
\* convert, the directories and the COG files there are.
Environment(fails, directories) ==
    [inputs |-> SourceFiles, fails |-> fails, dirs |-> directories,
     cogs |-> cogs]

\* commands.py:102  the suffix of an Item's file
JSON == << ".", "j", "s", "o", "n" >>

\* commands.py:100  fsspec.open on a COG the conversion has written finds it,
\* with its size.
open_cog(path, present) ==
    IF path \in present
    THEN [found |-> TRUE, size |-> << 1000 + Len(path) >>]
    ELSE Storage(path)

\* commands.py:103  item.make_asset_hrefs_relative(): the href of the data
\* asset, a local path, becomes relative to the Item's own file; the
\* documentation asset's URL stays.
with_data_href(item, href) ==
    [item EXCEPT !.assets =
        [@ EXCEPT !["data"] = [@ EXCEPT !.href = href]]]

\* commands.py:99-104  the loop of populate-collection over the COG files
\* still to come: each Item is built, added to the Collection and saved next
\* to its COG; the first create_item that raises ends the command.
RECURSIVE add_items(_, _, _)
add_items(cog_files, present, so_far) ==
    IF cog_files = << >> THEN so_far
    ELSE
    LET cog_file == Head(cog_files)
        call == create_item_of(cog_file, cog_file,
                               open_cog(cog_file, present))
        self_href == Str(replace(cog_file, TIF, JSON))
        saved == with_data_href(call.value,
                                << ".", "/" >> \o basename(cog_file))
    IN  IF call.raised # "none"
        THEN [so_far EXCEPT !.raised = call.raised,
                            !.opened = @ \o call.opened]
        ELSE add_items(Tail(cog_files), present,
                 [raised |-> "none",
                  opened |-> so_far.opened \o call.opened,
                  files |-> (self_href :> item_to_dict(saved))
                                @@ so_far.files,
                  wrote |-> so_far.wrote \cup { self_href },
                  items |-> Append(so_far.items,
                                   [item |-> call.value,
                                    cog |-> cog_file])])

\* commands.py:106-110  the end of populate-collection: the Collection, now
\* with its Items, is saved again, each Item at its normalized place
\* <destination>/<id>/<id>.json.  Of the links the catalog structure adds,
\* the Collection's links to its Items are kept.  loop is what the loop over
\* the COG files left.
save_populated(destination, collection, loop, objects, directories) ==
    LET count == 1..Len(loop.items)
        id(i) == loop.items[i].item.id
        place(i) == join(destination, id(i) \o "/" \o id(i) \o ".json")
        last(path) == CHOOSE i \in count :
                          /\ place(i) = path
                          /\ \A j \in count : place(j) = path => j <= i
        document(i) ==
            item_to_dict(with_data_href(loop.items[i].item,
                << ".", ".", "/" >> \o basename(loop.items[i].cog)))
        places == { place(i) : i \in count }
        populated ==
            [collection EXCEPT !.links = @ \o
                [i \in count |->
                    Link("item", "./" \o id(i) \o "/" \o id(i) \o ".json",
                         None)]]
    IN  IF loop.raised # "none"
        THEN Outcome(Raise(loop.raised, loop.opened), loop.files, loop.wrote,
                     objects, directories)
        ELSE Outcome(Return(None, loop.opened),
                        (join(destination, "collection.json")
                             :> collection_to_dict(populated))
                     @@ [path \in places |-> document(last(path))]
                     @@ loop.files,
                     loop.wrote \cup places, objects,
                     directories
                         \cup { join(destination, id(i)) : i \in count })

\* commands.py:97-110  populate-collection once the Collection has been saved
\* (saved: the files then) and the conversion has ended: when it raised, so
\* does the command; otherwise an Item is built and saved for every COG of
\* the destination.
populate_converted(destination, listing, collection, saved, conversion, objects, directories) ==
    IF conversion.raised # "none"
    THEN Outcome(Raise(conversion.raised, << >>), saved,
                 { join(destination, "collection.json") }, objects,
                 directories)
    ELSE save_populated(destination, collection,
             add_items(glob(destination, TIF, conversion.cogs, listing),
                       conversion.cogs,
                       [raised |-> "none", opened |-> << >>,
                        files |-> saved,
                        wrote |-> { join(destination, "collection.json") },
                        items |-> << >>]),
             objects, directories)

\* commands.py:86-110  populate-collection: the Collection is built and
\* saved, the NetCDF files of the source are converted into the destination,
\* then the Items are made.
populate_collection_command(source, destination, listing, fails) ==
    IF import_commands # "none"
    THEN Worked(NotLoaded, NotConverted(Environment(fails, dirs)))
    ELSE
    LET conversion ==
            create_cogs(source, destination, listing,
                        Environment(fails, dirs \cup { Str(destination) }))
    IN  Worked(populate_converted(
                   destination, listing, create_collection,
                      (join(destination, "collection.json")
                           :> collection_to_dict(create_collection))
                   @@ written,
                   conversion, add_link(shared, Serial),
                   dirs \cup { Str(destination) }),
               conversion)

\* commands.py:128-142  create-cog: the destination has to be a directory;
\* the COG is written there under the source's name, .nc4 taken out and .tif
\* put at the end.
create_cog_command(destination, source, fails) ==
    IF import_commands # "none"
    THEN Worked(NotLoaded, NotConverted(Environment(fails, dirs)))
    ELSE IF Str(destination) \notin dirs
    THEN Worked(Outcome(Raise("IOError", << >>), written, {}, shared, dirs),
                Converted("IOError", << >>, << >>, cogs))
    ELSE
    LET output_path ==
            path_join(destination,
                      replace(basename(source), NC4, << >>) \o TIF)
        conversion == create_cog(source, output_path,
                                 Environment(fails, dirs))
    IN  Worked(Outcome(IF conversion.raised = "none"
                       THEN Return(None, << >>)
                       ELSE Raise(conversion.raised, << >>),
                       written, {}, shared, dirs),
               conversion)

(***************************************************************************)
(* The state machine: one action per entry point                           *)
(***************************************************************************)

NoFiles == [path \in {} |-> None]

Init ==
    /\ catalog = [ASSET_DATA_TYPES |-> ASSET_DATA_TYPES,
                  ASSET_DESCRIPTIONS |-> ASSET_DESCRIPTIONS,
                  ASSET_UNITS |-> ASSET_UNITS,
                  ASSET_NOTES |-> ASSET_NOTES,
                  ASSET_LABELS |-> ASSET_LABELS]
    /\ result = [op |-> "none", href |-> << >>, modifier |-> None,
                 destination |-> << >>, raised |-> "none", value |-> None,
                 opened |-> << >>, wrote |-> {}]
    /\ shared = SharedAsLoaded
    /\ written = NoFiles
    /\ dirs = ExistingDirectories
    /\ cogs = {}
    /\ history = << >>
    /\ returned = << >>

\* stactools.hwsd.create_item(cog_href, cog_href_modifier), the href drawn
\* from hrefs
ItemCall(hrefs) ==
    /\ Len(history) < MaxCalls
    /\ \E cog_href \in hrefs, cog_href_modifier \in Modifiers :
          LET call == create_item(cog_href, cog_href_modifier)
          IN  /\ result' = [op |-> "create_item", href |-> cog_href,
                            modifier |-> cog_href_modifier,
                            destination |-> << >>, raised |-> call.raised,
                            value |-> call.value, opened |-> call.opened,
                            wrote |-> {}]
              /\ history' = Append(history, call.raised)
    /\ UNCHANGED << catalog, shared, written, dirs, cogs >>

\* stactools.hwsd.create_collection()
CollectionCall ==
    /\ Len(history) < MaxCalls
    /\ result' = [op |-> "create_collection", href |-> << >>,
                  modifier |-> None, destination |-> << >>,
                  raised |-> "none", value |-> create_collection,
                  opened |-> << >>, wrote |-> {}]
    /\ shared' = add_link(shared, Serial)
    /\ history' = Append(history, "none")
    /\ UNCHANGED << catalog, written, dirs, cogs >>

CreateItem == ItemCall(Hrefs) /\ UNCHANGED returned

CreateCollection == CollectionCall /\ UNCHANGED returned

\* hwsd create-item -s source -d destination
CreateItemCommand ==
    /\ Len(history) < MaxCalls
    /\ \E source \in CommandSources, destination \in ItemDestinations :
          LET done == create_item_command(source, destination)
          IN  /\ result' = [op |-> "create_item_command", href |-> source,
                            modifier |-> None, destination |-> destination,
                            raised |-> done.raised, value |-> done.value,
                            opened |-> done.opened, wrote |-> done.wrote]
              /\ shared' = done.shared
              /\ written' = done.files
              /\ dirs' = done.dirs
              /\ history' = Append(history, done.raised)
    /\ UNCHANGED << catalog, cogs, returned >>

\* hwsd create-collection -d destination
CreateCollectionCommand ==
    /\ Len(history) < MaxCalls
    /\ \E destination \in Directories :
          LET done == create_collection_command(destination)
          IN  /\ result' = [op |-> "create_collection_command",
                            href |-> << >>, modifier |-> None,
                            destination |-> destination,
                            raised |-> done.raised, value |-> done.value,
                            opened |-> done.opened, wrote |-> done.wrote]
              /\ shared' = done.shared
              /\ written' = done.files
              /\ dirs' = done.dirs
              /\ history' = Append(history, done.raised)
    /\ UNCHANGED << catalog, cogs, returned >>

\* stactools.hwsd.cog.create_cog(input_path, output_path)
CreateCog ==
    /\ Len(history) < MaxCalls
    /\ \E input_path \in CogSources, output_path \in CogOutputs,
          fails \in Unconvertible :
          LET call == create_cog(input_path, output_path,
                                 Environment(fails, dirs))
          IN  /\ result' = [op |-> "create_cog", href |-> input_path,
                            modifier |-> None, destination |-> output_path,
                            raised |-> call.raised, value |-> None,
                            opened |-> << >>, wrote |-> {},
                            listing |-> << >>, fails |-> fails,
                            invoked |-> call.invoked,
                            logged |-> call.logged]
              /\ cogs' = call.cogs
              /\ history' = Append(history, call.raised)
    /\ UNCHANGED << catalog, shared, written, dirs, returned >>

\* stactools.hwsd.cog.create_cogs(input_directory, output_directory)
CreateCogs ==
    /\ Len(history) < MaxCalls
    /\ \E input_directory \in SourceDirectories,
          output_directory \in Directories, listing \in Listings,
          fails \in Unconvertible :
          LET call == create_cogs(input_directory, output_directory, listing,
                                  Environment(fails, dirs))
          IN  /\ result' = [op |-> "create_cogs", href |-> input_directory,
                            modifier |-> None,
                            destination |-> output_directory,
                            raised |-> call.raised, value |-> None,
                            opened |-> << >>, wrote |-> {},
                            listing |-> listing, fails |-> fails,
                            invoked |-> call.invoked,
                            logged |-> call.logged]
              /\ cogs' = call.cogs
              /\ history' = Append(history, call.raised)
    /\ UNCHANGED << catalog, shared, written, dirs, returned >>

\* hwsd populate-collection -s source -d destination
PopulateCollectionCommand ==
    /\ Len(history) < MaxCalls
    /\ \E source \in SourceDirectories, destination \in Directories,
          listing \in Listings, fails \in Unconvertible :
          LET done == populate_collection_command(source, destination,
                                                  listing, fails)
          IN  /\ result' = [op |-> "populate_collection_command",
                            href |-> source, modifier |-> None,
                            destination |-> destination,
                            raised |-> done.raised, value |-> done.value,
                            opened |-> done.opened, wrote |-> done.wrote,
                            listing |-> listing, fails |-> fails,
                            invoked |-> done.invoked,
                            logged |-> done.logged]
              /\ shared' = done.shared
              /\ written' = done.files
              /\ dirs' = done.dirs
              /\ cogs' = done.cogs
              /\ history' = Append(history, done.raised)
    /\ UNCHANGED << catalog, returned >>

\* hwsd create-cog -d destination -s source
CreateCogCommand ==
    /\ Len(history) < MaxCalls
    /\ \E destination \in Directories, source \in CogSources,
          fails \in Unconvertible :
          LET done == create_cog_command(destination, source, fails)
          IN  /\ result' = [op |-> "create_cog_command", href |-> source,
                            modifier |-> None, destination |-> destination,
                            raised |-> done.raised, value |-> done.value,
                            opened |-> done.opened, wrote |-> done.wrote,
                            listing |-> << >>, fails |-> fails,
                            invoked |-> done.invoked,
                            logged |-> done.logged]
              /\ shared' = done.shared
              /\ written' = done.files
              /\ dirs' = done.dirs
              /\ cogs' = done.cogs
              /\ history' = Append(history, done.raised)
    /\ UNCHANGED << catalog, returned >>

Next ==
    \/ CreateItem
    \/ CreateCollection
    \/ CreateItemCommand
    \/ CreateCollectionCommand
    \/ CreateCog
    \/ CreateCogs
    \/ PopulateCollectionCommand
    \/ CreateCogCommand

Spec == Init /\ [][Next]_vars

\* The hrefs of the builds whose records are kept: two names on each
\* storage that can be read, and an unknown name.
BuildHrefs ==
         { root \o stem \o TIF :
               root \in { LocalRoot, SignedRoot, NoLengthRoot },
               stem \in { RegisteredStems[1], RegisteredStems[16] } }
    \cup { LocalRoot \o << "u", "n", "k", "n", "o", "w", "n", "_", "v", "a",
                          "r", ".", "t", "i", "f" >> }

\* create_item, the returned Item kept by the caller
BuildItem ==
    /\ ItemCall(BuildHrefs)
    /\ returned' = IF result'.raised = "none"
                   THEN Append(returned,
                               Handed(Serial, result'.value, item_aliases,
                                      shared'))
                   ELSE returned

\* create_collection, the returned Collection kept by the caller
BuildCollection ==
    /\ CollectionCall
    /\ returned' = Append(returned,
                          Handed(Serial, result'.value, collection_aliases,
                                 shared'))

NextBuilds ==
    \/ BuildItem
    \/ BuildCollection

\* The builders called in a row by one caller that keeps what they return
SpecBuilds == Init /\ [][NextBuilds]_vars

(***************************************************************************)
(* Properties                                                              *)
(***************************************************************************)

Range(s) == { s[i] : i \in 1..Len(s) }

\* The last call was create_item / it returned an Item.
ItemCalled == result.op = "create_item"

ItemReturned == ItemCalled /\ result.raised = "none"

\* The variable name the last call's asset path stands for.
CalledName == asset_name_from_href(result.href)

\* The name is a key of the catalog.
Registered(name) == name \in DOMAIN catalog.ASSET_DESCRIPTIONS

\* The path the last call had to probe: the modifier's result when one was
\* given, the asset path itself when none was.
CalledAccessHref ==
    IF result.modifier = None
    THEN result.href
    ELSE CallModifier(result.modifier, result.href)

\* The tables as constants.py sets them.
CatalogAsLoaded ==
    /\ catalog.ASSET_DATA_TYPES = ASSET_DATA_TYPES
    /\ catalog.ASSET_DESCRIPTIONS = ASSET_DESCRIPTIONS
    /\ catalog.ASSET_UNITS = ASSET_UNITS
    /\ catalog.ASSET_NOTES = ASSET_NOTES
    /\ catalog.ASSET_LABELS = ASSET_LABELS

\* C1: create_item on an asset path whose derived name is no key of the
\* catalog raises KeyError and returns no Item, and the tables stay as they
\* were loaded: a call with a registered name that follows a failed one (its
\* file being there to open) returns the Item of that name.
C1_UnknownVariableFails ==
    /\ CatalogAsLoaded
    /\ (ItemCalled /\ ~Registered(CalledName)) =>
           /\ result.raised = "KeyError"
           /\ result.value = None
           /\ result.opened = << >>
    /\ (/\ ItemCalled
        /\ Len(history) >= 2
        /\ history[Len(history) - 1] = "KeyError"
        /\ Registered(CalledName)
        /\ Storage(CalledAccessHref).found) =>
           /\ result.raised = "none"
           /\ result.value.class = "Item"
           /\ result.value.id = CalledName

\* C1's case: an Item returned by the call that follows a KeyError.
C1_Witness ==
    /\ ItemReturned
    /\ Len(history) = 2
    /\ history[1] = "KeyError"
    /\ Registered(CalledName)

\* C2: the description, unit and data-type tables have the same keys, and
\* for every key create_item raises no KeyError and, its file being there to
\* open, returns an Item whose data asset has the catalog's description and
\* unit, a notes field exactly when the catalog has notes for the name (and
\* then those), and one raster band with the catalog's data type, nodata -1
\* and sampling area.  Every key is among the names called.
C2_ItemMatchesCatalog ==
    /\ DOMAIN catalog.ASSET_UNITS = DOMAIN catalog.ASSET_DESCRIPTIONS
    /\ DOMAIN catalog.ASSET_DATA_TYPES = DOMAIN catalog.ASSET_DESCRIPTIONS
    /\ DOMAIN catalog.ASSET_DESCRIPTIONS
           \subseteq { asset_name_from_href(href) : href \in Hrefs }
    /\ (ItemCalled /\ Registered(CalledName)) =>
           /\ result.raised # "KeyError"
           /\ Storage(CalledAccessHref).found => result.raised = "none"
    /\ (ItemReturned /\ Registered(CalledName)) =>
           LET data == result.value.assets["data"]
               fields == data.extra_fields
           IN  /\ data.description = catalog.ASSET_DESCRIPTIONS[CalledName]
               /\ fields["units"] = catalog.ASSET_UNITS[CalledName]
               /\ ("notes" \in DOMAIN fields)
                      <=> (CalledName \in DOMAIN catalog.ASSET_NOTES)
               /\ (CalledName \in DOMAIN catalog.ASSET_NOTES)
                      => fields["notes"] = catalog.ASSET_NOTES[CalledName]
               /\ Len(fields["raster:bands"]) = 1
               /\ fields["raster:bands"][1].data_type
                      = catalog.ASSET_DATA_TYPES[CalledName]
               /\ fields["raster:bands"][1].nodata = -1
               /\ fields["raster:bands"][1].sampling = "area"

\* C2's case: the Item of a variable with notes and a 32-bit type.
C2_Witness ==
    /\ ItemReturned
    /\ result.value.id = "MU_GLOBAL"
    /\ "notes" \in DOMAIN result.value.assets["data"].extra_fields
    /\ result.value.assets["data"].extra_fields["raster:bands"][1].data_type
           = "int32"

LabelKeys ==
    { "label:type", "label:tasks", "label:properties", "label:description",
      "label:classes" }

\* C3: the catalog has class labels for AWC_CLASS (7 codes, 1..7), ISSOIL (2)
\* and ROOTS (7) only.  An Item of one of them has the label fields (raster,
\* classification) with one class list of the N labels in catalog order, a
\* file:values mapping of N entries, the k-th holding the k-th code and its
\* label, and the data asset's roles data, labels, labels-raster; an Item of
\* any other variable has no label field, no file:values and the roles data.
C3_LabelsExactlyWhenCategorical ==
    /\ DOMAIN catalog.ASSET_LABELS = { "AWC_CLASS", "ISSOIL", "ROOTS" }
    /\ Len(catalog.ASSET_LABELS["AWC_CLASS"]) = 7
    /\ \A k \in 1..7 : catalog.ASSET_LABELS["AWC_CLASS"][k][1] = k
    /\ Len(catalog.ASSET_LABELS["ISSOIL"]) = 2
    /\ Len(catalog.ASSET_LABELS["ROOTS"]) = 7
    /\ ItemReturned =>
           LET item == result.value
               data == item.assets["data"]
               labels == catalog.ASSET_LABELS[item.id]
           IN  IF item.id \in DOMAIN catalog.ASSET_LABELS
               THEN /\ LabelKeys \subseteq DOMAIN item.properties
                    /\ "label" \in Range(item.stac_extensions)
                    /\ item.properties["label:type"] = "raster"
                    /\ item.properties["label:tasks"] = << "classification" >>
                    /\ Len(item.properties["label:classes"]) = 1
                    /\ Len(item.properties["label:classes"][1].classes)
                           = Len(labels)
                    /\ \A k \in 1..Len(labels) :
                           item.properties["label:classes"][1].classes[k]
                               = labels[k][2]
                    /\ "file:values" \in DOMAIN data.extra_fields
                    /\ Len(data.extra_fields["file:values"]) = Len(labels)
                    /\ \A k \in 1..Len(labels) :
                           /\ data.extra_fields["file:values"][k].values
                                  = << labels[k][1] >>
                           /\ data.extra_fields["file:values"][k].summary
                                  = labels[k][2]
                    /\ data.roles = << "data", "labels", "labels-raster" >>
               ELSE /\ LabelKeys \cap DOMAIN item.properties = {}
                    /\ "label" \notin Range(item.stac_extensions)
                    /\ "file:values" \notin DOMAIN data.extra_fields
                    /\ data.roles = << "data" >>

\* C3's case: the Item of AWC_CLASS with its seven classes.
C3_Witness ==
    /\ ItemReturned
    /\ result.value.id = "AWC_CLASS"
    /\ Len(result.value.properties["label:classes"][1].classes) = 7
    /\ Len(result.value.assets["data"].extra_fields["file:values"]) = 7

\* What the tests assert of an Item: its id, its two assets, the DOI and the
\* EPSG code.
ItemFacts(item, name) ==
    /\ item.id = name
    /\ DOMAIN item.assets = { "documentation", "data" }
    /\ item.properties["sci:doi"] = DOI
    /\ item.properties["proj:epsg"] = EPSG
    /\ EPSG = 4326

\* The last call was the create-item command on a registered name whose
\* file is there to open.
ItemCommandOnGoodSource ==
    /\ result.op = "create_item_command"
    /\ Registered(CalledName)
    /\ Storage(result.href).found

\* C4: the Item create_item returns has the variable name as id, exactly the
\* assets documentation and data, sci:doi equal to DOI and proj:epsg equal
\* to EPSG (4326); the create-item command, given a registered name, writes
\* exactly one JSON file, and the Item read back from it has the same values.
C4_ItemIdentity ==
    /\ ItemReturned => ItemFacts(result.value, CalledName)
    /\ ItemCommandOnGoodSource =>
           /\ result.raised = "none"
           /\ Cardinality(result.wrote) = 1
           /\ \A path \in result.wrote :
                  ItemFacts(read_file(path), CalledName)

\* The number of item-asset templates of the Collection the last call
\* returned.
TemplateCount == Cardinality(DOMAIN result.value.extra_fields["item_assets"])

\* C5 as stated: the Collection has one item-asset template per catalog entry
\* plus one documentation template, the number of registered names plus 1.
C5_TemplatePerVariable ==
    result.op = "create_collection" =>
        TemplateCount = Cardinality(DOMAIN catalog.ASSET_DESCRIPTIONS) + 1

\* C5, amended: the Collection has exactly two item-asset templates, one
\* data template that stands for every variable and one documentation
\* template, whatever the number of registered names.
C5_TwoTemplates ==
    result.op = "create_collection" =>
        /\ result.raised = "none"
        /\ DOMAIN result.value.extra_fields["item_assets"]
               = { "data", "documentation" }
        /\ TemplateCount = 2
        /\ result.value.extra_fields["item_assets"]["data"]["roles"]
               = << "data" >>

\* C5's case: create_collection has returned, with 27 names registered.
C5_Witness ==
    /\ result.op = "create_collection"
    /\ result.raised = "none"
    /\ Cardinality(DOMAIN catalog.ASSET_DESCRIPTIONS) = 27
    /\ TemplateCount = 2

\* What the tests assert of a Collection.
CollectionFacts(collection) ==
    /\ collection.id = ID
    /\ collection.license = LICENSE
    /\ collection.extra_fields["sci:doi"] = DOI
    /\ Cardinality(DOMAIN collection.extra_fields["item_assets"]) = 2
    /\ DOMAIN collection.extra_fields["item_assets"]
           = { "data", "documentation" }

\* C6: the Collection create_collection returns has id ID, license LICENSE,
\* sci:doi DOI and two item-asset templates, data and documentation; the
\* create-collection command writes a single JSON file, and the Collection
\* read back from it has the same values.
C6_CollectionIdentity ==
    /\ result.op = "create_collection" => CollectionFacts(result.value)
    /\ result.op = "create_collection_command" =>
           /\ result.raised = "none"
           /\ Cardinality(result.wrote) = 1
           /\ \A path \in result.wrote : CollectionFacts(read_file(path))

\* The four corners of the bounding box.
Corners ==
    { << x, y >> : x \in { SPATIAL_EXTENT[1], SPATIAL_EXTENT[3] },
                   y \in { SPATIAL_EXTENT[2], SPATIAL_EXTENT[4] } }

\* A polygon of one closed ring of five points, the corners once each.
ClosedRing(geometry) ==
    /\ geometry.type = "Polygon"
    /\ Len(geometry.coordinates) = 1
    /\ Len(geometry.coordinates[1]) = 5
    /\ geometry.coordinates[1][1] = geometry.coordinates[1][5]
    /\ { geometry.coordinates[1][i] : i \in 1..4 } = Corners
    /\ Cardinality(Corners) = 4

CounterClockwise(geometry) == Shoelace(geometry.coordinates[1], 1) > 0

\* The geometry the last call put on its record: an Item's geometry, the
\* proj:geometry of a Collection's data template.
BuiltGeometry ==
    IF ItemReturned
    THEN result.value.geometry
    ELSE result.value.extra_fields["item_assets"]["data"]["proj:geometry"]

\* C7: the polygon made from the bounding box [-180, 90, 180, -90] is one
\* closed ring of five points, the four corners once each and the first
\* again, and runs counter-clockwise: its signed area is positive.
C7_GeometryCounterClockwise ==
    (ItemReturned \/ result.op = "create_collection") =>
        /\ SPATIAL_EXTENT = << -180, 90, 180, -90 >>
        /\ BuiltGeometry = get_geometry
        /\ ClosedRing(BuiltGeometry)
        /\ CounterClockwise(BuiltGeometry)

\* C8: for a registered name create_item returns the Item whether or not the
\* file can be opened; the data asset has file:size when the size is known
\* and has no file:size otherwise.
C8_SizeProbeBestEffort ==
    (ItemCalled /\ Registered(CalledName)) =>
        /\ result.raised = "none"
        /\ LET file == Storage(CalledAccessHref)
               fields == result.value.assets["data"].extra_fields
           IN  IF file.found /\ file.size # << >>
               THEN /\ "file:size" \in DOMAIN fields
                    /\ fields["file:size"] = file.size[1]
               ELSE "file:size" \notin DOMAIN fields

\* C9: the href modifier decides only which path is opened for the size.
\* The path opened is the modifier's result, and the asset path itself when
\* no modifier is given; whether the name is known, the Item's id and title
\* and the data asset's href come from the asset path as given; the size on
\* the data asset is the size of what was opened.
C9_ModifierOnlyForSizeProbe ==
    ItemCalled =>
        /\ (result.raised = "KeyError") <=> ~Registered(CalledName)
        /\ result.raised # "KeyError" =>
               result.opened = << CalledAccessHref >>
        /\ result.raised = "none" =>
               LET data == result.value.assets["data"]
                   file == Storage(CalledAccessHref)
               IN  /\ result.value.id = CalledName
                   /\ data.title = CalledName
                   /\ data.href = result.href
                   /\ ("file:size" \in DOMAIN data.extra_fields)
                          <=> (file.size # << >>)
                   /\ file.size # << >> =>
                          data.extra_fields["file:size"] = file.size[1]

\* C9's case: an Item built through a modifier, the path opened not being
\* the asset path.
C9_Witness ==
    /\ ItemReturned
    /\ result.modifier = sign
    /\ result.opened # << result.href >>
    /\ result.value.assets["data"].href = result.href
    /\ "file:size" \in DOMAIN result.value.assets["data"].extra_fields

\* The base name of the path without one trailing .nc4 or .tif.
Stem(href) ==
    LET name == basename(href)
    IN  IF EndsWith(name, NC4) \/ EndsWith(name, TIF)
        THEN SubSeq(name, 1, Len(name) - Len(TIF))
        ELSE name

\* C10: the variable name is the base name of the asset path less one
\* trailing .nc4 or .tif, looked up as it is: a path whose stem is no
\* registered name is rejected with KeyError, and an Item returned has the
\* stem as its id.
C10_OnlyTrailingSuffixStripped ==
    ItemCalled =>
        /\ ~Registered(Str(Stem(result.href))) => result.raised = "KeyError"
        /\ result.raised = "none" => result.value.id = Str(Stem(result.href))


(***************************************************************************)
(* Builds in a row (SpecBuilds)                                            *)
(***************************************************************************)

\* The Collections among the returned records, by position
ReturnedCollections ==
    { i \in 1..Len(returned) : returned[i].value.class = "Collection" }

\* C11: create_collection is repeatable.  Any two Collections returned in one
\* behaviour are equal, field by field and as JSON documents: two calls in a
\* row give equal Collections, and what a call returns does not depend on how
\* many builds, of Collections or of Items, came before it.
C11_CollectionRepeatable ==
    \A i, j \in ReturnedCollections :
        /\ returned[i].value = create_collection
        /\ returned[i].value = returned[j].value
        /\ collection_to_dict(returned[i].value)
               = collection_to_dict(returned[j].value)

\* Two Collections were built in a row, the second after the first had taken
\* the license link.
C11_Witness ==
    /\ ReturnedCollections = { 1, 2 }
    /\ returned[1].serial = 1
    /\ returned[2].serial = 2
    /\ shared.LICENSE_LINK.owner = << 2 >>

\* The module-level objects are as the import left them.
ConstantsUntouched == shared = SharedAsLoaded

\* Every returned record still refers to objects that read as they did when
\* the record was returned.
ReturnedUntouched ==
    \A i \in 1..Len(returned) :
        \A name \in returned[i].aliases :
            shared[name] = returned[i].seen[name]

\* No two returned records refer to a common mutable object.
NothingInCommon ==
    \A i, j \in 1..Len(returned) :
        i # j => returned[i].aliases \cap returned[j].aliases = {}

\* C12: the builds share no mutable state.  After any sequence of builds
\* every module-level constant object (LICENSE_LINK, PROVIDERS,
\* SPATIAL_EXTENT among them) is unchanged, no returned record has been
\* changed by a later call, and no two returned records refer to a common
\* mutable object.
C12_NoSharedMutableState ==
    /\ ConstantsUntouched
    /\ ReturnedUntouched
    /\ NothingInCommon

(***************************************************************************)
(* The conversion to COGs                                                  *)
(***************************************************************************)

\* The word that follows a flag on a command line
Option(cmd, flag) ==
    cmd[(CHOOSE i \in 1..(Len(cmd) - 1) : cmd[i] = flag) + 1]

\* The type and the nodata value of the one raster band create_item gives
\* the data asset of a variable
BandOf(asset_name) == raster_bands(asset_name)["raster:bands"][1]

\* C13: for every registered variable, create_cog passes the converter the
\* output data type the catalog declares for it, the type of the Item's
\* raster band, and the one fixed nodata sentinel, the band's nodata value.
C13_ConverterTypeFromCatalog ==
    (/\ result.op = "create_cog"
     /\ asset_name_from_href(result.destination)
            \in DOMAIN catalog.ASSET_DATA_TYPES)
    => /\ Len(result.invoked) = 1
       /\ LET asset_name == asset_name_from_href(result.destination)
              cmd == result.invoked[1]
          IN  /\ Option(cmd, "-ot") = catalog.ASSET_DATA_TYPES[asset_name]
              /\ Option(cmd, "-ot") = BandOf(asset_name).data_type
              /\ Option(cmd, "-a_nodata") = str(NO_DATA)
              /\ Option(cmd, "-a_nodata") = str(BandOf(asset_name).nodata)

\* What the converter does with the files of the last call
LastRun ==
    check_output(<< >>, result.href, result.destination,
                 Environment(result.fails, dirs))

\* C14: create_cog runs the converter exactly once per call.  When the
\* converter exits with a non-zero status the captured output is logged and
\* then the CalledProcessError leaves create_cog; when it succeeds the output
\* is logged and create_cog returns.  (Stated for output names the catalog
\* has.)
C14_ConverterOnceErrorReraised ==
    (/\ result.op = "create_cog"
     /\ asset_name_from_href(result.destination)
            \in DOMAIN catalog.ASSET_DATA_TYPES)
    => /\ Len(result.invoked) = 1
       /\ \E i \in 1..Len(result.logged) :
              /\ result.logged[i] = Log("info", "output: " \o LastRun.output)
              /\ \A j \in 1..(i - 1) : result.logged[j].level # "error"
       /\ LastRun.exit # 0 => result.raised = "CalledProcessError"
       /\ LastRun.exit = 0 =>
              /\ result.raised = "none"
              /\ result.destination \in cogs
              /\ \A i \in 1..Len(result.logged) :
                     result.logged[i].level # "error"

\* The commands of the command line
Commands ==
    { "create_collection_command", "create_item_command",
      "populate_collection_command", "create_cog_command" }

\* The directory a command writes into: the destination, or for create-item
\* the directory of the destination file
DestinationDirectory(call) ==
    IF call.op = "create_item_command" THEN dirname(call.destination)
    ELSE call.destination

\* C15: a command whose destination directory does not exist fails with the
\* error that says so (commands.py:136) before any work: nothing is built,
\* opened, written, created or converted.
C15_MissingDestinationIsFatal ==
    [][(/\ result'.op \in Commands
        /\ Str(DestinationDirectory(result')) \notin dirs)
       => /\ result'.raised = "IOError"
          /\ result'.opened = << >>
          /\ result'.wrote = {}
          /\ shared' = shared
          /\ written' = written
          /\ dirs' = dirs
          /\ cogs' = cogs
          /\ result'.op \in { "populate_collection_command",
                              "create_cog_command" }
                 => result'.invoked = << >>]_vars

\* The NetCDF files create_cogs is to convert, in the order of the listing
ToConvert(call) ==
    SelectSeq(glob(call.href, NC4, SourceFiles, call.listing),
              LAMBDA in_file : basename(in_file) # HWSD_SOIL_CLM_RES)

\* The COG a NetCDF file is converted to
CogOf(in_file, call) ==
    path_join(call.destination, asset_name_chars(in_file) \o TIF)

\* The conversion of a file fails: the converter fails on it, or the catalog
\* has no data type for it, or there is no directory to write to (the
\* populate-collection command has made the directory by then).
ConversionFails(in_file, call) ==
    \/ in_file \in call.fails
    \/ asset_name_from_href(in_file) \notin DOMAIN catalog.ASSET_DATA_TYPES
    \/ /\ call.op = "create_cogs"
       /\ Str(call.destination) \notin dirs

\* The files up to the first whose conversion fails, that one included
UpToFailure(call) ==
    LET files == ToConvert(call)
        failing == { i \in 1..Len(files) : ConversionFails(files[i], call) }
    IN  IF failing = {} THEN files
        ELSE SubSeq(files, 1,
                    CHOOSE i \in failing : \A j \in failing : i <= j)

\* C16: create_cogs converts the .nc4 files of the source one at a time, each
\* at most once, to <name>.tif in the output directory, never
\* HWSD_SOIL_CLM_RES.nc4: the converter is run on the files to convert, in
\* their order, once each (not on a file the catalog has no type for).  The
\* first conversion that fails ends the run with its error: no later file is
\* converted, the COGs made before remain, and the populate-collection
\* command creates no Item.
C16_ConversionsInOrderStopAtFailure ==
    result.op \in { "create_cogs", "populate_collection_command" }
    => LET attempted == UpToFailure(result)
           failed == \E i \in 1..Len(attempted) :
                         ConversionFails(attempted[i], result)
           handed == SelectSeq(attempted,
                        LAMBDA in_file :
                            asset_name_from_href(in_file)
                                \in DOMAIN catalog.ASSET_DATA_TYPES)
       IN  /\ Len(result.invoked) = Len(handed)
           /\ \A i \in 1..Len(handed) :
                  LET cmd == result.invoked[i]
                  IN  /\ cmd[Len(cmd) - 1] = Str(handed[i])
                      /\ cmd[Len(cmd)] = Str(CogOf(handed[i], result))
           /\ \A i \in 1..Len(attempted) :
                  ~ConversionFails(attempted[i], result)
                      => CogOf(attempted[i], result) \in cogs
           /\ failed <=> result.raised \in { "CalledProcessError", "KeyError" }
           /\ ~failed => result.raised = "none"
           /\ (failed /\ result.op = "populate_collection_command")
                  => result.wrote \subseteq
                         { join(result.destination, "collection.json") }
====
